---- MODULE Spec2Model ----
(***************************************************************************)
(* A model of the wallselect helper scripts:                               *)
(*   generators/hellwall.py, generators/pywal.py, generators/matugen.py    *)
(*   (parse flags, read a config section, build a command, run it),        *)
(*   swww.py (build a possibly random swww command and start it), and      *)
(*   generators/material.py (extract colours of a wallpaper into JSON).    *)
(*                                                                         *)
(* Text is modelled as follows.  A string is a TLA+ string.  A line of the *)
(* config file is a sequence of tokens: the special characters " ", "#",   *)
(* "[", "]", "=" are tokens of their own, and a maximal run of other       *)
(* characters is one token.  A Python float is an integer number of        *)
(* tenths (0.2 is 2); float() and str() are the conversions ParseFloat and *)
(* StrFloat.  None is the empty tuple and a value v that may be None is    *)
(* the tuple <<v>>.                                                        *)
(***************************************************************************)
EXTENDS Integers, Sequences, FiniteSets, TLC

VARIABLES
    script,     \* which script this run executes
    pc,         \* position of the run in the script's main code
    argv,       \* the command line: a function from the flags given to their text
    args,       \* the argparse Namespace, once parsed
    settings,   \* the dictionary load_config returned
    options,    \* swww.py: the options dictionary
    cmd,        \* the argument vector built for the external binary
    launches,   \* how many times an external binary was started
    proc,       \* what became of the external process
    exitcode,   \* exit status of the script; NotExited while it runs
    out,        \* the kinds of message the script has printed
    written,    \* material.py: the output files written
    reader,     \* load_config: the config path, the file, the lines read, the in-section flag
    wallpaper_path  \* material.py: the wallpaper path the script settled on

vars == <<script, pc, argv, args, settings, options, cmd, launches, proc, exitcode, out, written, reader,
          wallpaper_path>>

(***************************************************************************)
(* Bounds of the model.                                                    *)
(***************************************************************************)
\* at most this many flags besides --image on a command line
MaxArgs == 1
\* at most this many lines in a config file
MaxLines == 2
\* swww.py: at most this many flags besides the image path on a command line
MaxSwwwArgs == 2
\* swww.py: the outcomes of the random draws of one call differ from the
\* outcome BaseDraws in at most this many draws
MaxVaried == 1
\* load_config run on its own: at most this many lines in the config file
MaxConfigLines == 3
\* material.py: at most this many arguments on a command line
MaxMaterialArgs == 4
\* create_swww_command called on its own: at most this many keys in the
\* options dictionary (the dictionary with every key is tried as well)
MaxOptionKeys == 2
\* calculate_optimal_size: the width, the height and the bitmap size are at most this
MaxDim == 9

NotExited == -1
None == <<>>
Some(v) == <<v>>
IsNone(o) == o = <<>>
Val(o) == o[1]

Range(s) == {s[i] : i \in DOMAIN s}
Get(f, k, d) == IF k \in DOMAIN f THEN f[k] ELSE d
\* number of positions of the sequence s that hold x
Count(s, x) == Cardinality({i \in DOMAIN s : s[i] = x})
\* the sequence s contains x immediately followed by y
HasPair(s, x, y) == \E i \in 1..(Len(s) - 1) : s[i] = x /\ s[i + 1] = y
\* the sequences over S of length at most n
SeqUpTo(S, n) == UNION {[1..k -> S] : k \in 0..n}
\* the subsets of S with at most n elements
SubsetsUpTo(S, n) == {T \in SUBSET S : Cardinality(T) <= n}

(***************************************************************************)
(* Python's text operations on the strings of the model.                   *)
(***************************************************************************)
\* str.lower(): the strings of the model that contain an upper-case letter
LowerTable ==
    [s \in {"TRUE", "True", "FALSE", "MODE", "Mode", "Invert", "SATURATE", "TYPE"} |->
        CASE s = "TRUE" -> "true"
          [] s = "True" -> "true"
          [] s = "FALSE" -> "false"
          [] s = "MODE" -> "mode"
          [] s = "Mode" -> "mode"
          [] s = "Invert" -> "invert"
          [] s = "SATURATE" -> "saturate"
          [] s = "TYPE" -> "type"]
Lower(s) == IF s \in DOMAIN LowerTable THEN LowerTable[s] ELSE s

\* float(text): the decimal literals of the model, in tenths
FloatLit ==
    [s \in {"0", "0.0", "0.2", "0.5", "0.6", "0.7", "0.9", "1", "1.0", "-0.5", "2", "2.0", "90"} |->
        CASE s = "0" -> 0
          [] s = "0.0" -> 0
          [] s = "0.2" -> 2
          [] s = "0.5" -> 5
          [] s = "0.6" -> 6
          [] s = "0.7" -> 7
          [] s = "0.9" -> 9
          [] s = "1" -> 10
          [] s = "1.0" -> 10
          [] s = "-0.5" -> -5
          [] s = "2" -> 20
          [] s = "2.0" -> 20
          [] s = "90" -> 900]
\* int(text): the integer literals of the model
IntLit == [s \in {"0", "30", "60"} |-> CASE s = "0" -> 0 [] s = "30" -> 30 [] s = "60" -> 60]
\* float(s) raises ValueError on every other text of the model
IsFloatText(s) == s \in DOMAIN FloatLit
ParseFloat(s) == FloatLit[s]

\* str(x) of a float x given in tenths: "0.7", "1.0", "-0.5"
RECURSIVE StrFloat(_)
StrFloat(t) ==
    IF t < 0 THEN "-" \o StrFloat(-t)
    ELSE ToString(t \div 10) \o "." \o ToString(t % 10)

\* str.strip() of a line of tokens
RECURSIVE LStrip(_)
LStrip(l) == IF l # <<>> /\ Head(l) = " " THEN LStrip(Tail(l)) ELSE l
RECURSIVE RStrip(_)
RStrip(l) == IF l # <<>> /\ l[Len(l)] = " " THEN RStrip(SubSeq(l, 1, Len(l) - 1)) ELSE l
Strip(l) == RStrip(LStrip(l))
\* the text of a sequence of tokens
RECURSIVE Join(_)
Join(l) == IF l = <<>> THEN "" ELSE Head(l) \o Join(Tail(l))
\* position of the first "=" of a line, 0 if there is none
FirstEq(l) == IF \E i \in DOMAIN l : l[i] = "="
              THEN CHOOSE i \in DOMAIN l : l[i] = "=" /\ \A j \in 1..(i - 1) : l[j] # "="
              ELSE 0

(***************************************************************************)
(* The inputs of a run: command lines and config files.                    *)
(***************************************************************************)
Generators == {"hellwall", "pywal", "matugen"}
ImagePath == "wall.png"

\* the flags of each script that take no value (action="store_true")
SwitchFlags(s) ==
    CASE s = "hellwall" -> {"neon_mode", "invert", "random", "quiet", "json", "skip_term_colors",
                            "skip_luminance_sort", "debug", "no_cache"}
      [] s = "pywal" -> {"cols16", "skip_wallpaper", "skip_terminals", "skip_tty", "skip_reload",
                         "quiet", "verbose"}
      [] s = "matugen" -> {"dry_run", "show_colors", "quiet", "debug", "verbose"}
      [] s = "swww" -> {"noResize", "random", "list_transitions"}
\* the texts tried for each flag that takes a value
FlagTexts(s, f) ==
    CASE f = "image" -> {ImagePath}
      [] f = "config" -> {"alt.ini"}
      [] f = "help" -> {""}
      [] f = "mode" -> {"dark", "light", "purple"}
      [] f \in {"gray_scale", "dark_offset"} -> {"0", "0.7"}
      [] f = "bright_offset" -> {"0.7", "x"}
      [] f = "cols16_method" -> {"darken", "lighten"}
      [] f = "saturate" -> {"0.9"}
      [] f = "backend" -> {"wal", "colorz"}
      [] f = "contrast" -> IF s = "pywal" THEN {"2"} ELSE {"0", "-0.5"}
      [] f = "type" -> {"scheme-rainbow"}
      [] f = "json" /\ s = "matugen" -> {"hex", "xml"}
      [] f = "image_path" -> {ImagePath}
      [] f = "theme" -> {"random", "smooth", "dramatic", "minimal", "dynamic", "neon"}
      [] f = "transitionType" -> {"wipe"}
      [] f = "transitionStep" -> {"0", "90"}
      [] f = "transitionDuration" -> {"2"}
      [] f = "transitionFps" -> {"30", "x"}
      [] f = "transitionAngle" -> {"0"}
      [] f = "transitionPos" -> {"center"}
      [] f = "filter" -> {"Lanczos3"}
      [] f = "resize" -> {"fit"}
      [] f = "fillColor" -> {"#000000"}
      [] OTHER -> {""}
ValueFlags(s) ==
    CASE s = "hellwall" -> {"config", "mode", "gray_scale", "dark_offset", "bright_offset"}
      [] s = "pywal" -> {"config", "mode", "cols16_method", "saturate", "backend", "contrast"}
      [] s = "matugen" -> {"config", "mode", "type", "contrast", "json"}
      [] s = "swww" -> {"theme", "transitionType", "transitionStep", "transitionDuration",
                        "transitionFps", "transitionAngle", "transitionPos", "filter", "resize",
                        "fillColor"}
OptionalFlags(s) == SwitchFlags(s) \cup ValueFlags(s) \cup {"help"}
\* the argument every command line must have
RequiredFlag(s) == IF s = "swww" THEN "image_path" ELSE "image"
ArgsBound(s) == IF s = "swww" THEN MaxSwwwArgs ELSE MaxArgs
AllTexts(s) == UNION {FlagTexts(s, f) : f \in OptionalFlags(s) \cup {RequiredFlag(s)}}
\* the text of a flag is one argparse accepts
TextAccepted(s, f, t) ==
    CASE f = "mode" -> t \in {"dark", "light"}
      [] f \in {"gray_scale", "dark_offset", "bright_offset", "saturate", "contrast",
                 "transitionStep", "transitionDuration", "transitionAngle"} -> IsFloatText(t)
      [] f = "transitionFps" -> t \in DOMAIN IntLit
      [] f = "theme" -> t \in {"random", "smooth", "dramatic", "minimal", "dynamic"}
      [] f = "cols16_method" -> t \in {"darken", "lighten"}
      [] f = "json" /\ s = "matugen" -> t \in {"hex", "rgb", "rgba", "hsl", "hsla", "strip"}
      [] OTHER -> TRUE
\* The command lines tried: the image given or not, and a bounded number of other
\* flags.  --help is tried only next to texts argparse accepts, so that the
\* order of the arguments does not matter.
RECURSIVE FlagAssignments(_, _)
FlagAssignments(s, D) ==
    IF D = {} THEN {<<>>}
    ELSE LET f == CHOOSE f \in D : TRUE
         IN {[x \in D |-> IF x = f THEN t ELSE a[x]] :
                a \in FlagAssignments(s, D \ {f}), t \in FlagTexts(s, f)}
Argvs(s) ==
    UNION {{a \in FlagAssignments(s, D \cup I) :
               "help" \in DOMAIN a => \A f \in DOMAIN a : TextAccepted(s, f, a[f])} :
           D \in SubsetsUpTo(OptionalFlags(s), ArgsBound(s)), I \in {{}, {RequiredFlag(s)}}}

KV(k, v) == <<k, "=", v>>
Header(n) == <<"[", n, "]">>
\* the lines a config file of each script is made of
ConfigLines(s) ==
    {<<>>, <<"#", "mode", "=", "light">>, Header("Other")} \cup
    CASE s = "hellwall" ->
            {Header("Hellwal"), KV("mode", "light"), KV("neon_mode", "true"), KV("Invert", "True"),
             KV("gray_scale", "0.5"), <<"gray_scale", "=">>, KV("dark_offset", "0.5"),
             <<"dark_offset", "=", " ">>,
             <<" ", "bright_offset", " ", "=", " ", "abc">>, KV("random", "TRUE"),
             KV("quiet", "yes"), KV("json", "true"), KV("skip_term", "true"),
             KV("skip_lum", "true"), KV("debug", "true"), KV("no_cache", "true")}
      [] s = "pywal" ->
            {Header("Pywal"), KV("MODE", "light"), KV("cols16", "false"),
             KV("cols16_method", "lighten"), KV("saturate", "0.9"), KV("backend", "colorz"),
             KV("contrast", "2"), KV("skip_wallpaper", "true"), KV("skip_terminals", "True"),
             KV("skip_tty", "TRUE"), KV("skip_reload", "true"), KV("quiet", "true")}
      [] s = "matugen" ->
            {Header("Matugen"), KV("mode", "light"), KV("TYPE", "scheme-rainbow"),
             KV("contrast", "0.5"), KV("dry_run", "true"), KV("show_colors", "True"),
             KV("json", "hex"), KV("quiet", "TRUE"), KV("debug", "true"), KV("verbose", "true")}
\* the config file at the path the run reads: None when the path names no file
ConfigFiles(s) == {None} \cup {Some(f) : f \in SeqUpTo(ConfigLines(s), MaxLines)}

(***************************************************************************)
(* load_config: the loop over the lines of the file is the same in the     *)
(* three scripts but for the header, the known keys and the defaults.      *)
(***************************************************************************)
\* a variant of the iteration that compares the key without key.lower()
load_config_line_exact_key(header, known, st, raw) ==
    LET line == Strip(raw) IN
    IF line = <<>> \/ Head(line) = "#" THEN st
    ELSE IF line = Header(header) THEN [st EXCEPT !.in_section = TRUE]
    ELSE IF Head(line) = "[" /\ line[Len(line)] = "]" THEN [st EXCEPT !.in_section = FALSE]
    ELSE IF st.in_section /\ FirstEq(line) # 0
         THEN LET e == FirstEq(line)
                  key == Join(Strip(SubSeq(line, 1, e - 1)))
                  value == Join(Strip(SubSeq(line, e + 1, Len(line))))
              IN IF key \in known
                 THEN [st EXCEPT !.settings = [k \in DOMAIN @ \cup {key} |-> IF k = key THEN value ELSE @[k]]]
                 ELSE st
         ELSE st

\* one iteration of "for line in f": st is [in_section, settings]
load_config_line(header, known, st, raw) ==
    LET line == Strip(raw) IN
    IF line = <<>> \/ Head(line) = "#" THEN st
    ELSE IF line = Header(header) THEN [st EXCEPT !.in_section = TRUE]
    ELSE IF Head(line) = "[" /\ line[Len(line)] = "]" THEN [st EXCEPT !.in_section = FALSE]
    ELSE IF st.in_section /\ FirstEq(line) # 0
         THEN LET e == FirstEq(line)
                  key == Lower(Join(Strip(SubSeq(line, 1, e - 1))))
                  value == Join(Strip(SubSeq(line, e + 1, Len(line))))
              IN IF key \in known
                 THEN [st EXCEPT !.settings = [k \in DOMAIN @ \cup {key} |-> IF k = key THEN value ELSE @[k]]]
                 ELSE st
         ELSE st

RECURSIVE load_config_lines(_, _, _, _)
load_config_lines(header, known, st, lines) ==
    IF lines = <<>> THEN st
    ELSE load_config_lines(header, known, load_config_line(header, known, st, Head(lines)), Tail(lines))

hellwall_defaults ==
    [mode |-> "dark", neon_mode |-> "false", gray_scale |-> "0", dark_offset |-> "0.2",
     bright_offset |-> "0.2", invert |-> "false", random |-> "false", quiet |-> "false",
     json |-> "false", skip_term |-> "false", skip_lum |-> "false", debug |-> "false",
     no_cache |-> "false"]
hellwall_load_config(file) ==
    IF IsNone(file) THEN hellwall_defaults
    ELSE load_config_lines("Hellwal", DOMAIN hellwall_defaults,
                           [in_section |-> FALSE, settings |-> hellwall_defaults], Val(file)).settings

pywal_defaults ==
    [mode |-> "dark", cols16 |-> "true", saturate |-> "0.6", backend |-> "wal", contrast |-> "1.0",
     skip_wallpaper |-> "false", skip_terminals |-> "false", skip_tty |-> "false",
     skip_reload |-> "false"]
pywal_load_config(file) ==
    IF IsNone(file) THEN pywal_defaults
    ELSE load_config_lines("Pywal", DOMAIN pywal_defaults \cup {"cols16_method"},
                           [in_section |-> FALSE, settings |-> pywal_defaults], Val(file)).settings

matugen_defaults ==
    [mode |-> "dark", type |-> "scheme-tonal-spot", contrast |-> "0", dry_run |-> "false",
     show_colors |-> "false", json |-> "", quiet |-> "false", debug |-> "false"]
matugen_load_config(file) ==
    IF IsNone(file) THEN matugen_defaults
    ELSE load_config_lines("Matugen", DOMAIN matugen_defaults \cup {"verbose"},
                           [in_section |-> FALSE, settings |-> matugen_defaults], Val(file)).settings

(***************************************************************************)
(* parse_arguments of the three generator scripts.  The result is          *)
(* [status, ns]: status "ok" with the Namespace ns, "help" when --help     *)
(* made argparse print the usage and exit 0, "error" when argparse         *)
(* rejected the command line and exits 2.                                  *)
(***************************************************************************)
Given(a, f) == f \in DOMAIN a
OptText(a, f) == IF f \in DOMAIN a THEN Some(a[f]) ELSE None
OptFloat(a, f) == IF f \in DOMAIN a THEN Some(ParseFloat(a[f])) ELSE None
Rejected(s, a) == RequiredFlag(s) \notin DOMAIN a \/ \E f \in DOMAIN a : ~TextAccepted(s, f, a[f])

hellwall_parse_arguments(a) ==
    IF Given(a, "help") THEN [status |-> "help", ns |-> None]
    ELSE IF Rejected("hellwall", a) THEN [status |-> "error", ns |-> None]
    ELSE [status |-> "ok",
          ns |-> [image |-> a["image"],
                  config |-> OptText(a, "config"),
                  mode |-> Get(a, "mode", "dark"),
                  neon_mode |-> Given(a, "neon_mode"),
                  invert |-> Given(a, "invert"),
                  gray_scale |-> OptFloat(a, "gray_scale"),
                  dark_offset |-> OptFloat(a, "dark_offset"),
                  bright_offset |-> OptFloat(a, "bright_offset"),
                  random |-> Given(a, "random"),
                  quiet |-> Given(a, "quiet"),
                  json |-> Given(a, "json"),
                  skip_term_colors |-> Given(a, "skip_term_colors"),
                  skip_luminance_sort |-> Given(a, "skip_luminance_sort"),
                  debug |-> Given(a, "debug"),
                  no_cache |-> Given(a, "no_cache")]]

pywal_parse_arguments(a) ==
    IF Given(a, "help") THEN [status |-> "help", ns |-> None]
    ELSE IF Rejected("pywal", a) THEN [status |-> "error", ns |-> None]
    ELSE [status |-> "ok",
          ns |-> [image |-> a["image"],
                  config |-> OptText(a, "config"),
                  mode |-> Get(a, "mode", "dark"),
                  cols16 |-> Given(a, "cols16"),
                  cols16_method |-> Get(a, "cols16_method", "darken"),
                  saturate |-> IF Given(a, "saturate") THEN OptFloat(a, "saturate") ELSE Some(6),
                  backend |-> Get(a, "backend", "wal"),
                  contrast |-> IF Given(a, "contrast") THEN OptFloat(a, "contrast") ELSE Some(10),
                  skip_wallpaper |-> Given(a, "skip_wallpaper"),
                  skip_terminals |-> Given(a, "skip_terminals"),
                  skip_tty |-> Given(a, "skip_tty"),
                  skip_reload |-> Given(a, "skip_reload"),
                  quiet |-> Given(a, "quiet"),
                  verbose |-> Given(a, "verbose")]]

\* A number of matugen.py is <<"float", tenths>> or <<"int", n>>: the default
\* of --contrast is the int 0, whose str() is "0", while type=float gives 0.0.
StrNum(n) == IF n[1] = "int" THEN ToString(n[2]) ELSE StrFloat(n[2])

matugen_parse_arguments(a) ==
    IF Given(a, "help") THEN [status |-> "help", ns |-> None]
    ELSE IF Rejected("matugen", a) THEN [status |-> "error", ns |-> None]
    ELSE [status |-> "ok",
          ns |-> [image |-> a["image"],
                  config |-> OptText(a, "config"),
                  mode |-> Get(a, "mode", "dark"),
                  type |-> Get(a, "type", "scheme-tonal-spot"),
                  contrast |-> IF Given(a, "contrast")
                               THEN Some(<<"float", ParseFloat(a["contrast"])>>)
                               ELSE Some(<<"int", 0>>),
                  dry_run |-> Given(a, "dry_run"),
                  show_colors |-> Given(a, "show_colors"),
                  json |-> OptText(a, "json"),
                  quiet |-> Given(a, "quiet"),
                  debug |-> Given(a, "debug"),
                  verbose |-> Given(a, "verbose")]]

(***************************************************************************)
(* build_*_command.  The result is [raised, cmd]: raised when a float() of *)
(* a config value raised ValueError, and no command was built.             *)
(***************************************************************************)
Opt(c, x) == IF c THEN x ELSE <<>>
\* a variant that compares the config text with "true" without lower()
IsTrue_exact(t) == t = "true"
\* settings[key].lower() == "true"
IsTrue(t) == Lower(t) = "true"
\* "float(text or default)": text "" is falsy and the default d is taken
FloatOr(t, d) == IF t = "" THEN d ELSE ParseFloat(t)
FloatOrRaises(t) == t # "" /\ ~IsFloatText(t)
\* a variant that tests the flag's value for truth, so that 0.0 counts as not given
FlagElseConfig_truthy(o, t, d) == IF ~IsNone(o) /\ Val(o) # 0 THEN Val(o) ELSE FloatOr(t, d)
\* "args.x if args.x is not None else float(settings[x] or d)"
FlagElseConfig(o, t, d) == IF ~IsNone(o) THEN Val(o) ELSE FloatOr(t, d)

build_hellwal_command(a, st) ==
    LET mode == IF a.mode # "" THEN a.mode ELSE st["mode"]
        gray_scale == FlagElseConfig(a.gray_scale, st["gray_scale"], 0)
        dark_offset == FlagElseConfig(a.dark_offset, st["dark_offset"], 2)
        bright_offset == FlagElseConfig(a.bright_offset, st["bright_offset"], 2)
        raises == \/ IsNone(a.gray_scale) /\ FloatOrRaises(st["gray_scale"])
                  \/ IsNone(a.dark_offset) /\ FloatOrRaises(st["dark_offset"])
                  \/ IsNone(a.bright_offset) /\ FloatOrRaises(st["bright_offset"])
    IN IF raises THEN [raised |-> TRUE, cmd |-> <<>>]
       ELSE [raised |-> FALSE,
             cmd |-> <<"hellwal", "-i", a.image>>
                     \o (IF mode = "light" THEN <<"-l">> ELSE <<"-d">>)
                     \o Opt(a.neon_mode \/ IsTrue(st["neon_mode"]), <<"-m">>)
                     \o Opt(a.invert \/ IsTrue(st["invert"]), <<"-v">>)
                     \o Opt(gray_scale > 0, <<"-g", StrFloat(gray_scale)>>)
                     \o <<"-n", StrFloat(dark_offset)>>
                     \o <<"-b", StrFloat(bright_offset)>>
                     \o Opt(a.random \/ IsTrue(st["random"]), <<"-r">>)
                     \o Opt(a.quiet \/ IsTrue(st["quiet"]), <<"-q">>)
                     \o Opt(a.json \/ IsTrue(st["json"]), <<"-j">>)
                     \o Opt(a.skip_term_colors \/ IsTrue(st["skip_term"]), <<"--skip-term-colors">>)
                     \o Opt(a.skip_luminance_sort \/ IsTrue(st["skip_lum"]), <<"--skip-luminance-sort">>)
                     \o Opt(a.debug \/ IsTrue(st["debug"]), <<"--debug">>)
                     \o Opt(a.no_cache \/ IsTrue(st["no_cache"]), <<"--no-cache">>)]

build_pywal_command(a, st) ==
    LET mode == IF a.mode # "" THEN a.mode ELSE st["mode"]
        cols16 == a.cols16 \/ IsTrue(st["cols16"])
        \* hasattr(args, "cols16_method") holds of every Namespace
        cols16_method == a.cols16_method
        saturate == IF ~IsNone(a.saturate) THEN Val(a.saturate) ELSE ParseFloat(st["saturate"])
        backend == IF a.backend # "" THEN a.backend ELSE st["backend"]
        contrast == IF ~IsNone(a.contrast) THEN Val(a.contrast) ELSE ParseFloat(st["contrast"])
        raises == \/ IsNone(a.saturate) /\ ~IsFloatText(st["saturate"])
                  \/ IsNone(a.contrast) /\ ~IsFloatText(st["contrast"])
    IN IF raises THEN [raised |-> TRUE, cmd |-> <<>>]
       ELSE [raised |-> FALSE,
             cmd |-> <<"wal", "-i", a.image>>
                     \o Opt(mode = "light", <<"-l">>)
                     \o Opt(cols16, <<"--cols16", cols16_method>>)
                     \o <<"--saturate", StrFloat(saturate)>>
                     \o Opt(backend # "" /\ backend # "wal", <<"--backend", backend>>)
                     \o <<"--contrast", StrFloat(contrast)>>
                     \o Opt(a.skip_wallpaper \/ IsTrue(st["skip_wallpaper"]), <<"-n">>)
                     \o Opt(a.skip_terminals \/ IsTrue(st["skip_terminals"]), <<"-s">>)
                     \o Opt(a.skip_tty \/ IsTrue(st["skip_tty"]), <<"-t">>)
                     \o Opt(a.skip_reload \/ IsTrue(st["skip_reload"]), <<"-e">>)
                     \o Opt(a.quiet, <<"-q">>)]

build_matugen_command(a, st) ==
    LET mode == IF a.mode # "" THEN a.mode ELSE st["mode"]
        scheme_type == IF a.type # "" THEN a.type ELSE st["type"]
        contrast == IF ~IsNone(a.contrast) THEN Val(a.contrast) ELSE <<"float", ParseFloat(st["contrast"])>>
        json_format == IF ~IsNone(a.json) /\ Val(a.json) # "" THEN Val(a.json) ELSE st["json"]
        raises == IsNone(a.contrast) /\ ~IsFloatText(st["contrast"])
    IN IF raises THEN [raised |-> TRUE, cmd |-> <<>>]
       ELSE [raised |-> FALSE,
             cmd |-> <<"matugen", "image", a.image>>
                     \o <<"--mode", mode>>
                     \o <<"--type", scheme_type>>
                     \o <<"--contrast", StrNum(contrast)>>
                     \o Opt(a.dry_run \/ IsTrue(st["dry_run"]), <<"--dry-run">>)
                     \o Opt(a.show_colors \/ IsTrue(st["show_colors"]), <<"--show-colors">>)
                     \o Opt(json_format # "", <<"--json", json_format>>)
                     \o Opt(a.quiet \/ IsTrue(st["quiet"]), <<"--quiet">>)
                     \o Opt(a.debug \/ IsTrue(st["debug"]), <<"--debug">>)]

(***************************************************************************)
(* run_hellwal, run_pywal, run_matugen: subprocess.run either raises (the  *)
(* binary cannot be started) or returns the exit code of the process.      *)
(***************************************************************************)
ReturnCodes == {0, 1, 2}
NoProc == [launched |-> FALSE, rc |-> -1]
ProcOutcomes == {NoProc} \cup {[launched |-> TRUE, rc |-> c] : c \in ReturnCodes}

\* a variant that reports success as soon as the process could be started
run_hellwal_started(o) == o.launched
run_hellwal(o) == IF ~o.launched THEN FALSE ELSE o.rc = 0
run_pywal(o) == IF ~o.launched THEN FALSE ELSE o.rc = 0
run_matugen(o) == IF ~o.launched THEN FALSE ELSE o.rc = 0

(***************************************************************************)
(* main() of the generator scripts, one action per step.                   *)
(***************************************************************************)
\* args = parse_arguments(): argparse exits 0 after --help and 2 on an error
MainParse(r) ==
    /\ pc = "start"
    /\ IF r.status = "ok"
       THEN /\ args' = r.ns
            /\ pc' = "parsed"
            /\ UNCHANGED <<exitcode, out>>
       ELSE /\ pc' = "done"
            /\ exitcode' = IF r.status = "help" THEN 0 ELSE 2
            /\ out' = out \cup {IF r.status = "help" THEN "help" ELSE "usage"}
            /\ UNCHANGED args
    /\ UNCHANGED <<wallpaper_path, reader, script, argv, settings, options, cmd, launches, proc, written>>

\* settings = load_config(config_path), then the settings are printed
MainLoad(st) ==
    /\ pc = "parsed"
    /\ settings' = st
    /\ out' = out \cup {"settings"}
    /\ pc' = "loaded"
    /\ UNCHANGED <<wallpaper_path, reader, script, argv, args, options, cmd, launches, proc, exitcode, written>>

\* cmd = build_*_command(args, settings); an exception ends the script with
\* a traceback and status 1
MainBuild(r) ==
    /\ pc = "loaded"
    /\ IF r.raised
       THEN /\ pc' = "done"
            /\ exitcode' = 1
            /\ out' = out \cup {"traceback"}
            /\ UNCHANGED cmd
       ELSE /\ cmd' = r.cmd
            /\ pc' = "built"
            /\ UNCHANGED <<exitcode, out>>
    /\ UNCHANGED <<wallpaper_path, reader, script, argv, args, settings, options, launches, proc, written>>

\* success = run_*(cmd); sys.exit(0 if success else 1)
MainRun(o, success) ==
    /\ pc = "built"
    /\ launches' = launches + 1
    /\ proc' = o
    /\ out' = out \cup {"running"} \cup (IF o.launched THEN {} ELSE {"error"})
    /\ exitcode' = IF success THEN 0 ELSE 1
    /\ pc' = "done"
    /\ UNCHANGED <<wallpaper_path, reader, script, argv, args, settings, options, cmd, written>>

HellwallParse == script = "hellwall" /\ MainParse(hellwall_parse_arguments(argv))
\* what load_config returns on some config file
HellwallSettings == {hellwall_load_config(f) : f \in ConfigFiles("hellwall")}
HellwallLoad == script = "hellwall" /\ \E st \in HellwallSettings : MainLoad(st)
HellwallBuild == script = "hellwall" /\ MainBuild(build_hellwal_command(args, settings))
HellwallRun == script = "hellwall" /\ \E o \in ProcOutcomes : MainRun(o, run_hellwal(o))

PywalParse == script = "pywal" /\ MainParse(pywal_parse_arguments(argv))
\* what load_config returns on some config file
PywalSettings == {pywal_load_config(f) : f \in ConfigFiles("pywal")}
PywalLoad == script = "pywal" /\ \E st \in PywalSettings : MainLoad(st)
PywalBuild == script = "pywal" /\ MainBuild(build_pywal_command(args, settings))
PywalRun == script = "pywal" /\ \E o \in ProcOutcomes : MainRun(o, run_pywal(o))

MatugenParse == script = "matugen" /\ MainParse(matugen_parse_arguments(argv))
\* what load_config returns on some config file
MatugenSettings == {matugen_load_config(f) : f \in ConfigFiles("matugen")}
MatugenLoad == script = "matugen" /\ \E st \in MatugenSettings : MainLoad(st)
MatugenBuild == script = "matugen" /\ MainBuild(build_matugen_command(args, settings))
MatugenRun == script = "matugen" /\ \E o \in ProcOutcomes : MainRun(o, run_matugen(o))

\* the state of a script that has just been started
Fresh ==
    /\ pc = "start"
    /\ args = None
    /\ settings = None
    /\ options = None
    /\ cmd = <<>>
    /\ launches = 0
    /\ proc = NoProc
    /\ exitcode = NotExited
    /\ out = {}
    /\ written = {}
    /\ reader = None
    /\ wallpaper_path = None

Init ==
    /\ script \in Generators
    /\ argv \in Argvs(script)
    /\ Fresh

Next ==
    \/ HellwallParse \/ HellwallLoad \/ HellwallBuild \/ HellwallRun
    \/ PywalParse \/ PywalLoad \/ PywalBuild \/ PywalRun
    \/ MatugenParse \/ MatugenLoad \/ MatugenBuild \/ MatugenRun

Spec == Init /\ [][Next]_vars

(***************************************************************************)
(* Properties of the generator scripts.                                    *)
(***************************************************************************)
\* the run has built its command
Built == script \in Generators /\ cmd # <<>>
\* the mode the flag or else the config section asks for
AskedMode == IF "mode" \in DOMAIN argv THEN argv["mode"] ELSE settings["mode"]
\* the number the flag or else the config key asks for, in tenths
AskedFloat(flag, key) == IF flag \in DOMAIN argv THEN FloatLit[argv[flag]] ELSE FloatLit[settings[key]]
\* the text the flag or else the config key asks for, d if the key is not set
AskedText(flag, key, d) ==
    IF flag \in DOMAIN argv THEN argv[flag]
    ELSE IF key \in DOMAIN settings THEN settings[key] ELSE d

\* the command holds the switch sw followed by a text that denotes the number t
HasNumber(c, sw, t) ==
    \E i \in 1..(Len(c) - 1) : c[i] = sw /\ c[i + 1] \in DOMAIN FloatLit /\ FloatLit[c[i + 1]] = t

\* C1: the mode of the built command is the --mode flag's value when the flag
\* is given and otherwise the mode of the config section; with no flag and
\* mode=light in the section the command selects light mode.
C1_ModeFlagElseConfig ==
    Built =>
        CASE script = "hellwall" -> /\ (AskedMode = "light") = (Count(cmd, "-l") = 1)
                                    /\ (AskedMode = "light") = (Count(cmd, "-d") = 0)
          [] script = "pywal" -> (AskedMode = "light") = (Count(cmd, "-l") = 1)
          [] script = "matugen" -> HasPair(cmd, "--mode", AskedMode)

\* C2: pywal's saturate, contrast, backend and cols16_method are taken from
\* the flag when it is given and otherwise from the [Pywal] section.
C2_PywalValueFlagElseConfig ==
    (Built /\ script = "pywal") =>
        /\ HasNumber(cmd, "--saturate", AskedFloat("saturate", "saturate"))
        /\ HasNumber(cmd, "--contrast", AskedFloat("contrast", "contrast"))
        /\ AskedText("backend", "backend", "wal") \notin {"", "wal"}
              => HasPair(cmd, "--backend", AskedText("backend", "backend", "wal"))
        /\ Count(cmd, "--cols16") = 1
              => HasPair(cmd, "--cols16", AskedText("cols16_method", "cols16_method", "darken"))

\* C3: matugen's type and contrast are taken from the flag when it is given
\* and otherwise from the [Matugen] section.
C3_MatugenValueFlagElseConfig ==
    (Built /\ script = "matugen") =>
        /\ HasPair(cmd, "--type", AskedText("type", "type", "scheme-tonal-spot"))
        /\ HasNumber(cmd, "--contrast", AskedFloat("contrast", "contrast"))

\* the number hellwall.py is asked for: the flag, else the config value, else
\* (the config value being empty) the default d
HellwalAsked(flag, d) ==
    IF flag \in DOMAIN argv THEN FloatLit[argv[flag]]
    ELSE IF settings[flag] = "" THEN d ELSE FloatLit[settings[flag]]

\* C4: hellwall.py takes gray_scale, dark_offset and bright_offset from the
\* flag whenever it is given (an explicit 0 included), otherwise from the
\* config value, otherwise the default 0, 0.2, 0.2; the command holds exactly
\* one "-n <value>" and one "-b <value>", and "-g <value>" exactly when the
\* gray scale is greater than 0.
C4_HellwalNumbers ==
    (Built /\ script = "hellwall") =>
        /\ Count(cmd, "-n") = 1
        /\ HasNumber(cmd, "-n", HellwalAsked("dark_offset", 2))
        /\ Count(cmd, "-b") = 1
        /\ HasNumber(cmd, "-b", HellwalAsked("bright_offset", 2))
        /\ IF HellwalAsked("gray_scale", 0) > 0
           THEN Count(cmd, "-g") = 1 /\ HasNumber(cmd, "-g", HellwalAsked("gray_scale", 0))
           ELSE Count(cmd, "-g") = 0

\* an explicit --dark-offset 0 wins over dark_offset=0.5 of the config section
C4_Witness ==
    /\ Built /\ script = "hellwall"
    /\ "dark_offset" \in DOMAIN argv /\ argv["dark_offset"] = "0"
    /\ settings["dark_offset"] = "0.5"
    /\ HasPair(cmd, "-n", "0.0")

\* the boolean options with a config key: <<flag, config key, switch>>
BoolOptions(s) ==
    CASE s = "hellwall" ->
            {<<"neon_mode", "neon_mode", "-m">>, <<"invert", "invert", "-v">>,
             <<"random", "random", "-r">>, <<"quiet", "quiet", "-q">>, <<"json", "json", "-j">>,
             <<"skip_term_colors", "skip_term", "--skip-term-colors">>,
             <<"skip_luminance_sort", "skip_lum", "--skip-luminance-sort">>,
             <<"debug", "debug", "--debug">>, <<"no_cache", "no_cache", "--no-cache">>}
      [] s = "pywal" ->
            {<<"cols16", "cols16", "--cols16">>, <<"skip_wallpaper", "skip_wallpaper", "-n">>,
             <<"skip_terminals", "skip_terminals", "-s">>, <<"skip_tty", "skip_tty", "-t">>,
             <<"skip_reload", "skip_reload", "-e">>}
      [] s = "matugen" ->
            {<<"dry_run", "dry_run", "--dry-run">>, <<"show_colors", "show_colors", "--show-colors">>,
             <<"quiet", "quiet", "--quiet">>, <<"debug", "debug", "--debug">>}

C6_Original ==
    (script \in Generators /\ pc = "done") =>
        /\ launches = 1
        /\ (exitcode = 0) = (proc.launched /\ proc.rc = 0)
        /\ ~(proc.launched /\ proc.rc = 0) => exitcode = 1

\* C6 amended: a run invokes the binary at most once, and exactly once when
\* it has built its command; such a run exits 0 exactly when the binary was
\* launched and returned 0, and exits 1 otherwise.  A run that builds no
\* command invokes nothing: it exits 0 (--help) or 2 (command line rejected)
\* out of argparse, or 1 when building the command raised.
C6_InvokeOnceRelayStatus ==
    /\ script \in Generators => launches <= 1 /\ (launches = 1 => pc = "done" /\ cmd # <<>>)
    /\ (script \in Generators /\ pc = "done") =>
        IF cmd # <<>>
        THEN /\ launches = 1
             /\ (exitcode = 0) = (proc.launched /\ proc.rc = 0)
             /\ ~(proc.launched /\ proc.rc = 0) => exitcode = 1
        ELSE /\ launches = 0
             /\ \/ exitcode = 0 /\ "help" \in DOMAIN argv
                \/ exitcode = 2 /\ "help" \notin DOMAIN argv /\ args = None
                \/ exitcode = 1 /\ args # None /\ "traceback" \in out

\* the binary ran and returned 2: the script has exited with status 1
C6_Witness ==
    /\ script \in Generators /\ pc = "done"
    /\ launches = 1 /\ proc.launched /\ proc.rc = 2
    /\ exitcode = 1

(***************************************************************************)
(* swww.py.  A value of the options dictionary carries its Python type:    *)
(* <<"str", s>>, <<"int", n>>, <<"float", tenths>>, <<"bool", b>>; NoneV   *)
(* is None.                                                                *)
(***************************************************************************)
PStr(x) == <<"str", x>>
PInt(n) == <<"int", n>>
PFloat(t) == <<"float", t>>
PBool(b) == <<"bool", b>>
NoneV == <<"none", "">>
\* bool(v)
Truthy(v) ==
    CASE v[1] = "str" -> v[2] # ""
      [] v[1] = "bool" -> v[2]
      [] v[1] \in {"int", "float"} -> v[2] # 0
      [] OTHER -> FALSE
\* str(v)
PyStr(v) ==
    CASE v[1] = "str" -> v[2]
      [] v[1] = "int" -> ToString(v[2])
      [] v[1] = "float" -> StrFloat(v[2])
      [] v[1] = "bool" -> IF v[2] THEN "True" ELSE "False"
      [] OTHER -> "None"
\* options.get(k)
DictGet(d, k) == IF k \in DOMAIN d THEN d[k] ELSE NoneV

\* a variant that tests transitionStep by its truth value
create_swww_command_truthy_step(image_path, o) ==
    <<"swww", "img", image_path>>
    \o Opt(Truthy(DictGet(o, "noResize")), <<"--no-resize">>)
    \o Opt(Truthy(DictGet(o, "resize")), <<"--resize", PyStr(DictGet(o, "resize"))>>)
    \o Opt(Truthy(DictGet(o, "fillColor")), <<"--fill-color", PyStr(DictGet(o, "fillColor"))>>)
    \o Opt(Truthy(DictGet(o, "filter")), <<"-f", PyStr(DictGet(o, "filter"))>>)
    \o Opt(Truthy(DictGet(o, "transitionType")), <<"--transition-type", PyStr(DictGet(o, "transitionType"))>>)
    \o Opt(Truthy(DictGet(o, "transitionStep")), <<"--transition-step", PyStr(DictGet(o, "transitionStep"))>>)
    \o Opt(DictGet(o, "transitionDuration") # NoneV, <<"--transition-duration", PyStr(DictGet(o, "transitionDuration"))>>)
    \o Opt(DictGet(o, "transitionFps") # NoneV, <<"--transition-fps", PyStr(DictGet(o, "transitionFps"))>>)
    \o Opt(DictGet(o, "transitionAngle") # NoneV, <<"--transition-angle", PyStr(DictGet(o, "transitionAngle"))>>)
    \o Opt(Truthy(DictGet(o, "transitionPos")), <<"--transition-pos", PyStr(DictGet(o, "transitionPos"))>>)

create_swww_command(image_path, o) ==
    <<"swww", "img", image_path>>
    \o Opt(Truthy(DictGet(o, "noResize")), <<"--no-resize">>)
    \o Opt(Truthy(DictGet(o, "resize")), <<"--resize", PyStr(DictGet(o, "resize"))>>)
    \o Opt(Truthy(DictGet(o, "fillColor")), <<"--fill-color", PyStr(DictGet(o, "fillColor"))>>)
    \o Opt(Truthy(DictGet(o, "filter")), <<"-f", PyStr(DictGet(o, "filter"))>>)
    \o Opt(Truthy(DictGet(o, "transitionType")), <<"--transition-type", PyStr(DictGet(o, "transitionType"))>>)
    \o Opt(DictGet(o, "transitionStep") # NoneV, <<"--transition-step", PyStr(DictGet(o, "transitionStep"))>>)
    \o Opt(DictGet(o, "transitionDuration") # NoneV, <<"--transition-duration", PyStr(DictGet(o, "transitionDuration"))>>)
    \o Opt(DictGet(o, "transitionFps") # NoneV, <<"--transition-fps", PyStr(DictGet(o, "transitionFps"))>>)
    \o Opt(DictGet(o, "transitionAngle") # NoneV, <<"--transition-angle", PyStr(DictGet(o, "transitionAngle"))>>)
    \o Opt(Truthy(DictGet(o, "transitionPos")), <<"--transition-pos", PyStr(DictGet(o, "transitionPos"))>>)

\* the candidate lists of generate_random_swww_options
transition_types ==
    <<"fade", "left", "right", "top", "bottom",
      "wipe", "wave", "grow", "center", "outer",
      "top-left", "top-right", "bottom-left", "bottom-right",
      "center-out", "outer-in",
      "spiral", "diamond", "hexagon">>
\* the positions; the last three are made of two random integers each
positions(d) ==
    <<"center", "top", "left", "right", "bottom",
      "top-left", "top-right", "bottom-left", "bottom-right",
      "top-center", "bottom-center", "left-center", "right-center",
      "quarter-top-left", "quarter-top-right",
      "quarter-bottom-left", "quarter-bottom-right",
      ToString(d.pos_a1) \o "," \o ToString(d.pos_a2),
      ToString(d.pos_b1) \o "," \o ToString(d.pos_b2),
      ToString(d.pos_c1) \o "," \o ToString(d.pos_c2)>>
resize_options == <<"crop", "crop", "crop", "fit", "no">>
filters == <<NoneV, NoneV, NoneV, PStr("Lanczos3"), PStr("Mitchell"), PStr("CatmullRom"),
             PStr("Triangle"), PStr("Gaussian")>>
fill_colors == <<NoneV, NoneV, PStr("#000000"), PStr("#FFFFFF"), PStr("#1a1a1a"), PStr("#2d2d2d"),
                 PStr("#0f0f0f"), PStr("#333333"), PStr("#404040")>>
transition_steps == <<200, 220, 240, 255, 120, 140, 160, 180, 60, 80, 100>>
\* in tenths of a second
transition_durations == <<5, 8, 10, 12, 15, 20, 25, 30, 40, 50>>
transition_fpss == <<60, 60, 60>>
cardinal_angles == <<0, 45, 90, 135, 180, 225, 270, 315>>

\* the outcomes tried for random.randint(a, b) and, in tenths, random.uniform(a, b)
RandSample(a, b) == {a, (a + b) \div 2, b}
\* The random draws of one call of generate_random_swww_options: an index for
\* each choice from a list, a number for each randint.
RandomCand ==
    [pos_a1 |-> RandSample(10, 90), pos_a2 |-> RandSample(10, 90),
     pos_b1 |-> RandSample(0, 50), pos_b2 |-> RandSample(0, 50),
     pos_c1 |-> RandSample(50, 100), pos_c2 |-> RandSample(50, 100),
     step |-> DOMAIN transition_steps,
     duration |-> DOMAIN transition_durations,
     fps |-> DOMAIN transition_fpss,
     type |-> DOMAIN transition_types,
     angle |-> RandSample(0, 359),
     angle_cardinal |-> DOMAIN cardinal_angles,
     resize |-> DOMAIN resize_options,
     pos |-> 1..20,
     filter |-> DOMAIN filters,
     fill |-> DOMAIN fill_colors]
\* the draws of generate_themed_transition before it looks at the theme
ThemedCand ==
    [smooth_type |-> 1..3, smooth_step |-> RandSample(180, 255), smooth_duration |-> RandSample(15, 30),
     dramatic_type |-> 1..3, dramatic_step |-> RandSample(200, 255),
     dramatic_duration |-> RandSample(5, 15), dramatic_fps |-> 1..2,
     dramatic_angle |-> RandSample(0, 359),
     dynamic_type |-> 1..5, dynamic_step |-> RandSample(150, 220),
     dynamic_duration |-> RandSample(8, 20), dynamic_fps |-> 1..2,
     theme_pos |-> 1..5]
\* the outcome the others are varied from: the least candidate of every draw
BaseDraws(cand) == [c \in DOMAIN cand |-> CHOOSE v \in cand[c] : \A w \in cand[c] : v <= w]
RECURSIVE Vary(_, _, _)
Vary(cand, d, n) ==
    IF n = 0 THEN {d}
    ELSE {d} \cup UNION {UNION {Vary(cand, [d EXCEPT ![c] = v], n - 1) : v \in cand[c]} : c \in DOMAIN cand}
\* a second outcome to vary from: the greatest candidate of every draw
TopDraws(cand) == [c \in DOMAIN cand |-> CHOOSE v \in cand[c] : \A w \in cand[c] : w <= v]
VaryBoth(cand, n) == Vary(cand, BaseDraws(cand), n) \cup Vary(cand, TopDraws(cand), n)
RandomDraws == VaryBoth(RandomCand, MaxVaried)
\* the draws <<t, d>> of one call of generate_themed_transition: t for the
\* themes, d for the call of generate_random_swww_options it may make
ThemedDraws ==
    UNION {Vary(ThemedCand, BaseDraws(ThemedCand), k) \X VaryBoth(RandomCand, MaxVaried - k) : k \in 0..MaxVaried}
\* The draws tried in a run of the script, where only the source of the
\* options matters: every draw takes its least or its greatest candidate.
Extremes(cand) == [c \in DOMAIN cand |-> {BaseDraws(cand)[c], TopDraws(cand)[c]}]
ScriptRandomDraws == VaryBoth(Extremes(RandomCand), MaxVaried)
ScriptThemedDraws ==
    UNION {VaryBoth(Extremes(ThemedCand), k) \X VaryBoth(Extremes(RandomCand), MaxVaried - k) : k \in 0..MaxVaried}

\* a variant that keeps every key
WithoutNone_keep(o) == o
\* the dictionary without the keys whose value is None
WithoutNone(o) == [k \in {k \in DOMAIN o : o[k] # NoneV} |-> o[k]]

\* a variant that draws the angle from 0..359 for every transition type
generate_random_swww_options_any_angle(d) ==
    LET selected_transition == transition_types[d.type]
        transition_angle == d.angle
    IN WithoutNone(
        [resize |-> PStr(resize_options[d.resize]),
         transitionType |-> PStr(selected_transition),
         transitionStep |-> PInt(transition_steps[d.step]),
         transitionDuration |-> PFloat(transition_durations[d.duration]),
         transitionFps |-> PInt(transition_fpss[d.fps]),
         transitionAngle |-> PInt(transition_angle),
         transitionPos |-> PStr(positions(d)[d.pos]),
         filter |-> filters[d.filter],
         fillColor |-> fill_colors[d.fill]])

generate_random_swww_options(d) ==
    LET selected_transition == transition_types[d.type]
        transition_angle ==
            IF selected_transition \in {"wipe", "wave", "spiral"} THEN d.angle
            ELSE IF selected_transition \in {"grow", "center", "outer"} THEN cardinal_angles[d.angle_cardinal]
            ELSE d.angle
    IN WithoutNone(
        [resize |-> PStr(resize_options[d.resize]),
         transitionType |-> PStr(selected_transition),
         transitionStep |-> PInt(transition_steps[d.step]),
         transitionDuration |-> PFloat(transition_durations[d.duration]),
         transitionFps |-> PInt(transition_fpss[d.fps]),
         transitionAngle |-> PInt(transition_angle),
         transitionPos |-> PStr(positions(d)[d.pos]),
         filter |-> filters[d.filter],
         fillColor |-> fill_colors[d.fill]])

\* the themes dictionary, built from the draws t whatever the theme is
themes(t) ==
    [smooth |->
        [transitionType |-> PStr(<<"fade", "grow", "center">>[t.smooth_type]),
         transitionStep |-> PInt(t.smooth_step),
         transitionDuration |-> PFloat(t.smooth_duration),
         transitionFps |-> PInt(60)],
     dramatic |->
        [transitionType |-> PStr(<<"wipe", "wave", "spiral">>[t.dramatic_type]),
         transitionStep |-> PInt(t.dramatic_step),
         transitionDuration |-> PFloat(t.dramatic_duration),
         transitionFps |-> PInt(<<60, 60>>[t.dramatic_fps]),
         transitionAngle |-> PInt(t.dramatic_angle)],
     minimal |->
        [transitionType |-> PStr("fade"),
         transitionStep |-> PInt(255),
         transitionDuration |-> PFloat(10),
         transitionFps |-> PInt(30)],
     dynamic |->
        [transitionType |-> PStr(<<"left", "right", "top", "bottom", "diagonal">>[t.dynamic_type]),
         transitionStep |-> PInt(t.dynamic_step),
         transitionDuration |-> PFloat(t.dynamic_duration),
         transitionFps |-> PInt(<<60, 60>>[t.dynamic_fps])]]

generate_themed_transition(theme, t, d) ==
    IF theme = "random" \/ theme \notin DOMAIN themes(t)
    THEN generate_random_swww_options(d)
    ELSE LET base_options == themes(t)[theme]
             update == [resize |-> PStr("crop"),
                        transitionPos |-> PStr(<<"center", "top-left", "top-right", "bottom-left",
                                                 "bottom-right">>[t.theme_pos])]
         IN [k \in DOMAIN base_options \cup DOMAIN update |->
                IF k \in DOMAIN update THEN update[k] ELSE base_options[k]]

\* the transition types list_available_transitions prints
list_available_transitions ==
    <<"fade", "left", "right", "top", "bottom",
      "wipe", "wave", "grow", "center", "outer",
      "top-left", "top-right", "bottom-left", "bottom-right",
      "center-out", "outer-in", "spiral", "diamond", "hexagon">>

\* parse_command_line_args of swww.py
OptStr(a, f) == IF f \in DOMAIN a THEN PStr(a[f]) ELSE NoneV
OptFlt(a, f) == IF f \in DOMAIN a THEN PFloat(ParseFloat(a[f])) ELSE NoneV
parse_command_line_args(a) ==
    IF Given(a, "help") THEN [status |-> "help", ns |-> None]
    ELSE IF Rejected("swww", a) THEN [status |-> "error", ns |-> None]
    ELSE [status |-> "ok",
          ns |-> [image_path |-> PStr(a["image_path"]),
                  theme |-> PStr(Get(a, "theme", "random")),
                  transitionType |-> OptStr(a, "transitionType"),
                  transitionStep |-> OptFlt(a, "transitionStep"),
                  transitionDuration |-> OptFlt(a, "transitionDuration"),
                  transitionFps |-> IF Given(a, "transitionFps") THEN PInt(IntLit[a["transitionFps"]]) ELSE NoneV,
                  transitionAngle |-> OptFlt(a, "transitionAngle"),
                  transitionPos |-> OptStr(a, "transitionPos"),
                  filter |-> OptStr(a, "filter"),
                  noResize |-> PBool(Given(a, "noResize")),
                  resize |-> OptStr(a, "resize"),
                  fillColor |-> OptStr(a, "fillColor"),
                  random |-> PBool(Given(a, "random")),
                  list_transitions |-> PBool(Given(a, "list_transitions"))]]

\* "{k: v for k, v in vars(args).items() if v is not None and k not in [...]}"
options_from_args(ns) ==
    [k \in {k \in DOMAIN ns : ns[k] # NoneV /\ k \notin {"image_path", "random", "theme", "list_transitions"}}
        |-> ns[k]]

\* what the generating functions can return
RandomResults == {generate_random_swww_options(d) : d \in ScriptRandomDraws}
ThemedResults ==
    [theme \in {"random", "smooth", "dramatic", "minimal", "dynamic"} |->
        {generate_themed_transition(theme, td[1], td[2]) : td \in ScriptThemedDraws}]
\* a variant that looks at the theme before --random
select_options_theme_first(ns) ==
    IF ns.theme # PStr("random") THEN ThemedResults[ns.theme[2]]
    ELSE IF Truthy(ns.random) THEN RandomResults
    ELSE LET o == options_from_args(ns)
         IN IF DOMAIN o = {} THEN ThemedResults[ns.theme[2]] ELSE {o}
\* the options the script can settle on
select_options(ns) ==
    IF Truthy(ns.random) THEN RandomResults
    ELSE IF ns.theme # PStr("random") THEN ThemedResults[ns.theme[2]]
    ELSE LET o == options_from_args(ns)
         IN IF DOMAIN o = {} THEN ThemedResults[ns.theme[2]] ELSE {o}

(***************************************************************************)
(* The script part of swww.py, one action per step.                        *)
(***************************************************************************)
Running == [launched |-> TRUE, rc |-> -1]

SwwwParse == script = "swww" /\ MainParse(parse_command_line_args(argv))

\* --list-transitions: print the list and exit 0
SwwwList ==
    /\ script = "swww" /\ pc = "parsed"
    /\ Truthy(args.list_transitions)
    /\ out' = out \cup {"list"}
    /\ exitcode' = 0
    /\ pc' = "done"
    /\ UNCHANGED <<wallpaper_path, reader, script, argv, args, settings, options, cmd, launches, proc, written>>

\* choose the options and build the command
SwwwOptions ==
    /\ script = "swww" /\ pc = "parsed"
    /\ ~Truthy(args.list_transitions)
    /\ \E o \in select_options(args) :
          /\ options' = o
          /\ cmd' = create_swww_command(args.image_path[2], o)
    /\ out' = out \cup {"executing"}
    /\ pc' = "command"
    /\ UNCHANGED <<wallpaper_path, reader, script, argv, args, settings, launches, proc, exitcode, written>>

\* exec_async(command): Popen starts the process and returns at once, or
\* raises when the binary cannot be started
exec_async(started) == IF started THEN Running ELSE NoProc

SwwwExec ==
    /\ script = "swww" /\ pc = "command"
    /\ \E started \in BOOLEAN :
          /\ proc' = exec_async(started)
          /\ out' = out \cup {IF started THEN "success" ELSE "error"}
          /\ exitcode' = IF started THEN 0 ELSE 1
    /\ launches' = launches + 1
    /\ pc' = "done"
    /\ UNCHANGED <<wallpaper_path, reader, script, argv, args, settings, options, cmd, written>>

\* the swww process, which nobody waits for, terminates
SwwwProcessExits ==
    /\ script = "swww" /\ proc = Running
    /\ \E c \in ReturnCodes : proc' = [launched |-> TRUE, rc |-> c]
    /\ UNCHANGED <<wallpaper_path, reader, script, pc, argv, args, settings, options, cmd, launches, exitcode, out, written>>

SwwwInit ==
    /\ script = "swww"
    /\ argv \in Argvs("swww")
    /\ Fresh

SwwwNext == SwwwParse \/ SwwwList \/ SwwwOptions \/ SwwwExec \/ SwwwProcessExits

SwwwSpec == SwwwInit /\ [][SwwwNext]_vars

(***************************************************************************)
(* swww.py used as a module: the generating functions are called with any  *)
(* theme name.                                                             *)
(***************************************************************************)
ThemeNames == {"random", "smooth", "dramatic", "minimal", "dynamic", "neon"}

CallGenerateRandom ==
    /\ script = "swww_module" /\ pc = "start"
    /\ \E d \in RandomDraws :
          /\ options' = generate_random_swww_options(d)
          /\ args' = [call |-> "generate_random_swww_options", theme |-> "", t |-> None, d |-> d]
    /\ pc' = "returned"
    /\ UNCHANGED <<wallpaper_path, reader, script, argv, settings, cmd, launches, proc, exitcode, out, written>>

CallGenerateThemed ==
    /\ script = "swww_module" /\ pc = "start"
    /\ \E theme \in ThemeNames, td \in ThemedDraws :
          /\ options' = generate_themed_transition(theme, td[1], td[2])
          /\ args' = [call |-> "generate_themed_transition", theme |-> theme, t |-> td[1], d |-> td[2]]
    /\ pc' = "returned"
    /\ UNCHANGED <<wallpaper_path, reader, script, argv, settings, cmd, launches, proc, exitcode, out, written>>

\* The options dictionaries create_swww_command is called with: a key is
\* absent, None, a falsy value or a truthy value of the type the script
\* gives it.
OptionValues(k) ==
    CASE k = "noResize" -> {NoneV, PBool(FALSE), PBool(TRUE)}
      [] k = "resize" -> {NoneV, PStr(""), PStr("fit")}
      [] k = "fillColor" -> {NoneV, PStr(""), PStr("#000000")}
      [] k = "filter" -> {NoneV, PStr(""), PStr("Lanczos3")}
      [] k = "transitionType" -> {NoneV, PStr(""), PStr("wipe")}
      [] k = "transitionStep" -> {NoneV, PInt(0), PFloat(0), PInt(90)}
      [] k = "transitionDuration" -> {NoneV, PInt(0), PFloat(15)}
      [] k = "transitionFps" -> {NoneV, PInt(0), PInt(60)}
      [] k = "transitionAngle" -> {NoneV, PInt(0), PFloat(0), PInt(45)}
      [] k = "transitionPos" -> {NoneV, PStr(""), PStr("center")}
OptionKeys ==
    {"noResize", "resize", "fillColor", "filter", "transitionType", "transitionStep",
     "transitionDuration", "transitionFps", "transitionAngle", "transitionPos"}
RECURSIVE DictsOver(_)
DictsOver(D) ==
    IF D = {} THEN {<<>>}
    ELSE LET k == CHOOSE k \in D : TRUE
         IN {[x \in D |-> IF x = k THEN v ELSE o[x]] : o \in DictsOver(D \ {k}), v \in OptionValues(k)}
FullDict ==
    [k \in OptionKeys |-> CHOOSE v \in OptionValues(k) : v # NoneV /\ Truthy(v)]
OptionDicts == UNION {DictsOver(D) : D \in SubsetsUpTo(OptionKeys, MaxOptionKeys)} \cup {FullDict}

CallCreateCommand ==
    /\ script = "swww_module" /\ pc = "start"
    /\ \E image_path \in {"wall.png", "my wall.png"}, o \in OptionDicts :
          /\ options' = o
          /\ cmd' = create_swww_command(image_path, o)
          /\ args' = [call |-> "create_swww_command", theme |-> "", t |-> None, d |-> None,
                      image_path |-> image_path]
    /\ pc' = "returned"
    /\ UNCHANGED <<wallpaper_path, reader, script, argv, settings, launches, proc, exitcode, out, written>>

ModuleInit ==
    /\ script = "swww_module"
    /\ argv = <<>>
    /\ Fresh

ModuleNext == CallGenerateRandom \/ CallGenerateThemed \/ CallCreateCommand

ModuleSpec == ModuleInit /\ [][ModuleNext]_vars

\* C7 as claimed: when the swww process has exited with a non-zero code,
\* swww.py has not reported success and its own exit status is not 0.
C7_RelaysSwwwStatus ==
    (script = "swww" /\ pc = "done" /\ proc.launched /\ proc.rc > 0) =>
        "success" \notin out /\ exitcode # 0

\* C9 as claimed: run with an image path and nothing else, swww.py builds
\* and executes "swww img <path>" with a --transition-type argument.
C9_ImageOnlyGetsTransition ==
    (script = "swww" /\ cmd # <<>> /\ DOMAIN argv = {"image_path"}) =>
        /\ SubSeq(cmd, 1, 3) = <<"swww", "img", argv["image_path"]>>
        /\ Count(cmd, "--transition-type") = 1

\* C10 as claimed: the transitionType of every dictionary the generating
\* functions return, for any theme, is one of the 19 listed transition types.
C10_TypesAreListed ==
    (script = "swww_module" /\ pc = "returned") =>
        /\ "transitionType" \in DOMAIN options
        /\ options["transitionType"][2] \in Range(list_available_transitions)

\* the call returned a dictionary made by generate_random_swww_options:
\* called directly, or through generate_themed_transition with a theme that
\* is "random" or unknown
FromRandom ==
    /\ script = "swww_module" /\ pc = "returned"
    /\ \/ args.call = "generate_random_swww_options"
       \/ args.call = "generate_themed_transition"
            /\ args.theme \notin {"smooth", "dramatic", "minimal", "dynamic"}

\* C13: every dictionary of generate_random_swww_options has the keys resize,
\* transitionType, transitionStep, transitionDuration, transitionFps,
\* transitionAngle and transitionPos, has filter and fillColor exactly when
\* the value drawn for them is not None, maps no key to None, and takes
\* every value from the candidate list of its key.
C13_RandomOptionsWellFormed ==
    FromRandom =>
        /\ {"resize", "transitionType", "transitionStep", "transitionDuration", "transitionFps",
            "transitionAngle", "transitionPos"} \subseteq DOMAIN options
        /\ DOMAIN options \subseteq
              {"resize", "transitionType", "transitionStep", "transitionDuration", "transitionFps",
               "transitionAngle", "transitionPos", "filter", "fillColor"}
        /\ ("filter" \in DOMAIN options) = (filters[args.d.filter] # NoneV)
        /\ ("fillColor" \in DOMAIN options) = (fill_colors[args.d.fill] # NoneV)
        /\ \A k \in DOMAIN options : options[k] # NoneV
        /\ options["resize"] \in {PStr("crop"), PStr("fit"), PStr("no")}
        /\ options["transitionType"] \in {PStr(x) : x \in Range(transition_types)}
        /\ options["transitionStep"] \in {PInt(n) : n \in Range(transition_steps) \cap (60..255)}
        /\ options["transitionDuration"] \in {PFloat(n) : n \in Range(transition_durations) \cap (5..50)}
        /\ options["transitionFps"] = PInt(60)
        /\ options["transitionPos"] \in {PStr(x) : x \in Range(positions(args.d))}
        /\ "filter" \in DOMAIN options => options["filter"] \in Range(filters)
        /\ "fillColor" \in DOMAIN options => options["fillColor"] \in Range(fill_colors)

\* a filter was drawn and no fill colour: the dictionary has filter and lacks fillColor
C13_Witness ==
    /\ FromRandom
    /\ "filter" \in DOMAIN options /\ options["filter"] = PStr("Gaussian")
    /\ "fillColor" \notin DOMAIN options

\* C14: in every dictionary of generate_random_swww_options the angle is one
\* of 0, 45, ..., 315 when the transition type is grow, center or outer, and
\* an integer in 0..359 for every other type.
C14_AngleByTransitionType ==
    FromRandom =>
        IF options["transitionType"] \in {PStr("grow"), PStr("center"), PStr("outer")}
        THEN options["transitionAngle"] \in {PInt(45 * n) : n \in 0..7}
        ELSE options["transitionAngle"] \in {PInt(n) : n \in 0..359}

\* the type drawn is grow and the angle drawn for it is 315
C14_Witness ==
    /\ FromRandom
    /\ options["transitionType"] = PStr("grow")
    /\ options["transitionAngle"] = PInt(315)
    /\ args.d.angle = 359

\* the flags of create_swww_command in the order claimed, each with its key
\* and with whether it is numeric (emitted for every value but None)
SwwwFlags ==
    <<[flag |-> "--no-resize", key |-> "noResize", numeric |-> FALSE],
      [flag |-> "--resize", key |-> "resize", numeric |-> FALSE],
      [flag |-> "--fill-color", key |-> "fillColor", numeric |-> FALSE],
      [flag |-> "-f", key |-> "filter", numeric |-> FALSE],
      [flag |-> "--transition-type", key |-> "transitionType", numeric |-> FALSE],
      [flag |-> "--transition-step", key |-> "transitionStep", numeric |-> TRUE],
      [flag |-> "--transition-duration", key |-> "transitionDuration", numeric |-> TRUE],
      [flag |-> "--transition-fps", key |-> "transitionFps", numeric |-> TRUE],
      [flag |-> "--transition-angle", key |-> "transitionAngle", numeric |-> TRUE],
      [flag |-> "--transition-pos", key |-> "transitionPos", numeric |-> FALSE]>>
\* the option is to be emitted for the dictionary o
ToEmit(f, o) ==
    /\ f.key \in DOMAIN o
    /\ IF f.numeric THEN o[f.key] # NoneV ELSE Truthy(o[f.key])
\* the place of the word w in the list c, 0 if it is not there
PlaceOf(c, w) == IF w \in Range(c) THEN CHOOSE i \in DOMAIN c : c[i] = w ELSE 0

\* C15: create_swww_command returns "swww", "img", the image path, and then
\* each option at most once, in the fixed order of SwwwFlags: a numeric
\* option whenever its key holds a value other than None (0 included), every
\* other option only when its value is truthy, each followed by its value;
\* absent keys add nothing.
C15_CommandFromOptions ==
    (script = "swww_module" /\ pc = "returned" /\ args.call = "create_swww_command") =>
        /\ Len(cmd) >= 3 /\ SubSeq(cmd, 1, 3) = <<"swww", "img", args.image_path>>
        /\ \A i \in DOMAIN SwwwFlags :
              LET f == SwwwFlags[i]
              IN /\ Count(cmd, f.flag) = IF ToEmit(f, options) THEN 1 ELSE 0
                 /\ (ToEmit(f, options) /\ f.key # "noResize") => HasPair(cmd, f.flag, PyStr(options[f.key]))
                 /\ \A j \in DOMAIN SwwwFlags :
                       (i < j /\ ToEmit(f, options) /\ ToEmit(SwwwFlags[j], options)) =>
                           PlaceOf(cmd, f.flag) < PlaceOf(cmd, SwwwFlags[j].flag)
        /\ Len(cmd) = 3 + Cardinality({i \in DOMAIN SwwwFlags : ToEmit(SwwwFlags[i], options)})
                        + Cardinality({i \in DOMAIN SwwwFlags :
                                          ToEmit(SwwwFlags[i], options) /\ SwwwFlags[i].key # "noResize"})

\* a step of 0 is emitted and an empty resize is not
C15_Witness ==
    /\ script = "swww_module" /\ pc = "returned" /\ args.call = "create_swww_command"
    /\ DOMAIN options = {"transitionStep", "resize"}
    /\ options["transitionStep"] = PInt(0) /\ options["resize"] = PStr("")
    /\ cmd = <<"swww", "img", args.image_path, "--transition-step", "0">>

\* swww.py has settled on its options
OptionsChosen == script = "swww" /\ pc \in {"command", "done"} /\ options # None
\* the value argparse gives the option flag k of the command line
GivenOption(k) ==
    CASE k \in {"transitionStep", "transitionDuration", "transitionAngle"} -> PFloat(FloatLit[argv[k]])
      [] k = "transitionFps" -> PInt(IntLit[argv[k]])
      [] k = "noResize" -> PBool(TRUE)
      [] OTHER -> PStr(argv[k])

\* C16: with --random the options are a dictionary of
\* generate_random_swww_options whatever else is given; otherwise with
\* --theme smooth, dramatic, minimal or dynamic they are a dictionary of
\* generate_themed_transition(theme) and the option flags are ignored; only
\* otherwise are they the option flags given.
C16_OptionSourcePriority ==
    OptionsChosen =>
        IF "random" \in DOMAIN argv THEN options \in RandomResults
        ELSE IF "theme" \in DOMAIN argv /\ argv["theme"] \in {"smooth", "dramatic", "minimal", "dynamic"}
        THEN options \in ThemedResults[argv["theme"]]
        ELSE \A k \in OptionKeys :
                IF k \in DOMAIN argv THEN k \in DOMAIN options /\ options[k] = GivenOption(k)
                ELSE ~Truthy(DictGet(options, k)) /\ DictGet(options, k) \in {NoneV, PBool(FALSE)}

\* --random next to --theme minimal: the options are random ones (60 fps, an
\* angle), not those of the theme
C16_Witness ==
    /\ OptionsChosen
    /\ "random" \in DOMAIN argv
    /\ "theme" \in DOMAIN argv /\ argv["theme"] = "minimal"
    /\ options["transitionFps"] = PInt(60)
    /\ "transitionAngle" \in DOMAIN options

\* C17 as claimed: run with --list-transitions next to any other arguments
\* argparse accepts, swww.py prints the list and exits 0, and never
\* launches swww.
C17_ListTransitionsOnly ==
    (script = "swww" /\ "list_transitions" \in DOMAIN argv /\ "help" \notin DOMAIN argv
        /\ \A f \in DOMAIN argv : TextAccepted("swww", f, argv[f])) =>
        /\ launches = 0
        /\ pc = "done" => "list" \in out /\ exitcode = 0

(***************************************************************************)
(* generators/material.py.                                                 *)
(***************************************************************************)
CACHE_DIR == "~/.cache/wallpapers/material"
\* what os.path.isfile and Image.open find at a path
FileKind(path) ==
    CASE path = "wall.png" -> "image"
      [] path = "notes.txt" -> "text"
      [] OTHER -> "missing"
\* The command line of material.py is the sequence of its arguments, since
\* argparse decides by position what a word is.  The words tried: paths, the
\* options of the parser, an option it does not know with a value, the
\* empty string.
MaterialTokens ==
    {"wall.png", "missing.png", "notes.txt", "--image", "--config", "--output", "--mode", "dark",
     "--help", ""}
MaterialArgvs == SeqUpTo(MaterialTokens, MaxMaterialArgs)
\* the words argparse takes for an option: they start with "-"
OptionLike == {"--image", "--config", "--output", "--mode", "--help"}

\* parser.parse_known_args() reads the words from left to right: --help
\* exits 0; a known option takes the next word, which must not look like an
\* option; an unknown option is set aside alone; the first other word is the
\* positional wallpaper and later ones are set aside
RECURSIVE material_scan(_, _)
material_scan(toks, ns) ==
    IF toks = <<>> THEN [status |-> "ok", ns |-> ns]
    ELSE LET t == Head(toks)
             rest == SubSeq(toks, 3, Len(toks))
         IN IF t = "--help" THEN [status |-> "help", ns |-> None]
            ELSE IF t \in {"--image", "--config", "--output"}
            THEN IF Len(toks) < 2 \/ toks[2] \in OptionLike THEN [status |-> "error", ns |-> None]
                 ELSE IF t = "--image" THEN material_scan(rest, [ns EXCEPT !.image = Some(toks[2])])
                 ELSE IF t = "--config" THEN material_scan(rest, [ns EXCEPT !.config = Some(toks[2])])
                 ELSE material_scan(rest, [ns EXCEPT !.output = toks[2]])
            ELSE IF t \in OptionLike THEN material_scan(Tail(toks), ns)
            ELSE IF IsNone(ns.wallpaper) THEN material_scan(Tail(toks), [ns EXCEPT !.wallpaper = Some(t)])
            ELSE material_scan(Tail(toks), ns)
material_parse_known_args(a) ==
    material_scan(a, [image |-> None, config |-> None, output |-> CACHE_DIR \o "/colors.json",
                      wallpaper |-> None])

\* extract_colors: [raised, ret, printed, wrote]; ret is None or <<path>>
extract_colors(wallpaper, output_path) ==
    IF FileKind(wallpaper) = "missing"
    THEN [raised |-> FALSE, ret |-> None, printed |-> {"error"}, wrote |-> {}]
    ELSE IF FileKind(wallpaper) # "image"
    THEN [raised |-> TRUE, ret |-> None, printed |-> {"traceback"}, wrote |-> {}]
    ELSE LET path == IF output_path = "" THEN CACHE_DIR \o "/colors.json" ELSE output_path
         IN [raised |-> FALSE, ret |-> Some(path), printed |-> {"saved"}, wrote |-> {path}]

\* the imports at the top of the module: without materialyoucolor the script
\* prints an error and exits 1
MaterialImport ==
    /\ script = "material" /\ pc = "start"
    /\ \E installed \in BOOLEAN :
          IF installed
          THEN pc' = "imported" /\ UNCHANGED <<out, exitcode>>
          ELSE pc' = "done" /\ out' = out \cup {"error"} /\ exitcode' = 1
    /\ UNCHANGED <<wallpaper_path, reader, script, argv, args, settings, options, cmd, launches, proc, written>>

MaterialParse ==
    /\ script = "material" /\ pc = "imported"
    /\ LET r == material_parse_known_args(argv)
       IN IF r.status = "ok"
          THEN args' = r.ns /\ pc' = "parsed" /\ UNCHANGED <<out, exitcode>>
          ELSE /\ pc' = "done"
               /\ exitcode' = IF r.status = "help" THEN 0 ELSE 2
               /\ out' = out \cup {IF r.status = "help" THEN "help" ELSE "usage"}
               /\ UNCHANGED args
    /\ UNCHANGED <<wallpaper_path, reader, script, argv, settings, options, cmd, launches, proc, written>>

\* a value that may be None is falsy when it is None or the empty string
Falsy(o) == IsNone(o) \/ Val(o) = ""
\* wallpaper_path = args.image if args.image else args.wallpaper
resolve_wallpaper(ns) == IF ~Falsy(ns.image) THEN ns.image ELSE ns.wallpaper

\* settle on the wallpaper path; without one print an error and exit 1
MaterialResolve ==
    /\ script = "material" /\ pc = "parsed"
    /\ wallpaper_path' = resolve_wallpaper(args)
    /\ IF Falsy(wallpaper_path')
       THEN pc' = "done" /\ out' = out \cup {"error"} /\ exitcode' = 1
       ELSE pc' = "resolved" /\ UNCHANGED <<out, exitcode>>
    /\ UNCHANGED <<reader, script, argv, args, settings, options, cmd, launches, proc, written>>

\* output_path = extract_colors(wallpaper_path, args.output) and the final print
MaterialExtract ==
    /\ script = "material" /\ pc = "resolved"
    /\ LET r == extract_colors(Val(wallpaper_path), args.output)
       IN /\ out' = out \cup r.printed
          /\ written' = written \cup r.wrote
          /\ exitcode' = IF r.raised THEN 1 ELSE 0
    /\ pc' = "done"
    /\ UNCHANGED <<wallpaper_path, reader, script, argv, args, settings, options, cmd, launches, proc>>

MaterialInit ==
    /\ script = "material"
    /\ argv \in MaterialArgvs
    /\ Fresh

MaterialNext == MaterialImport \/ MaterialParse \/ MaterialResolve \/ MaterialExtract

MaterialSpec == MaterialInit /\ [][MaterialNext]_vars

\* C8 as claimed: run with a wallpaper path that is not an existing file,
\* material.py prints an error, writes no file and exits with status 1.
C8_MissingWallpaperExitsOne ==
    (script = "material" /\ pc = "done" /\ ~Falsy(wallpaper_path)
        /\ FileKind(Val(wallpaper_path)) = "missing") =>
        "error" \in out /\ written = {} /\ exitcode = 1

\* The command lines C12 speaks of: no --help, every known option followed
\* by its value, and the unknown option --mode always with its value "dark".
PlainArgv(a) ==
    /\ "--help" \notin Range(a)
    /\ \A i \in DOMAIN a :
          /\ a[i] \in {"--image", "--config", "--output"} => i < Len(a) /\ a[i + 1] \notin OptionLike
          /\ a[i] = "--mode" => i < Len(a) /\ a[i + 1] = "dark"
          /\ a[i] = "dark" => i > 1 /\ a[i - 1] = "--mode"
\* the places of the --image values and of the words that belong to no option
ImagePlaces(a) == {i \in 2..Len(a) : a[i - 1] = "--image"}
PositionalPlaces(a) ==
    {i \in DOMAIN a : a[i] \notin OptionLike
                        /\ (i = 1 \/ a[i - 1] \notin {"--image", "--config", "--output", "--mode"})}
\* the path such a command line names: the last --image value, else the
\* first positional word; None when it names none (an empty word names none)
NamedWallpaper(a) ==
    LET I == ImagePlaces(a)
        P == PositionalPlaces(a)
        image == IF I = {} THEN "" ELSE a[CHOOSE i \in I : \A j \in I : j <= i]
        positional == IF P = {} THEN "" ELSE a[CHOOSE i \in P : \A j \in P : i <= j]
    IN IF image # "" THEN Some(image) ELSE IF positional # "" THEN Some(positional) ELSE None

\* C12 as claimed: material.py settles on the --image value when --image is
\* given, else on the positional argument, and exits 1 without extracting or
\* writing when neither is given; --config and arguments the parser does not
\* know never make it fail and never change the path it settles on.
C12_ImageElsePositionalExtrasIgnored ==
    (script = "material" /\ pc = "done" /\ PlainArgv(argv)) =>
        /\ "usage" \notin out
        /\ args # None =>
              IF NamedWallpaper(argv) = None
              THEN Falsy(wallpaper_path) /\ exitcode = 1 /\ written = {} /\ "saved" \notin out
              ELSE wallpaper_path = NamedWallpaper(argv)

(***************************************************************************)
(* calculate_optimal_size of material.py, called on its own.  The float    *)
(* scale is sqrt(bitmap_size^2 / (width * height)), so that                *)
(* round(width * scale) = n means |sqrt(width * bitmap_size^2 / height) -  *)
(* n| <= 1/2, which is compared in integers after squaring.  When the      *)
(* product lies exactly between two integers the float may round either    *)
(* way, and both are results.                                              *)
(***************************************************************************)
\* the values of round(d * scale) for the dimension d, the other dimension o
\* and the bitmap size b, when d * o > b * b
RoundScaled(d, o, b) ==
    {n \in 0..d : /\ n = 0 \/ (2 * n - 1) * (2 * n - 1) * o <= 4 * d * b * b
                  /\ 4 * d * b * b <= (2 * n + 1) * (2 * n + 1) * o}
\* a variant without the two "if new_... == 0" corrections
calculate_optimal_size_uncorrected(width, height, bitmap_size) ==
    IF width * height > bitmap_size * bitmap_size
    THEN RoundScaled(width, height, bitmap_size) \X RoundScaled(height, width, bitmap_size)
    ELSE {<<width, height>>}
\* the pairs <<new_width, new_height>> the function can return
calculate_optimal_size(width, height, bitmap_size) ==
    LET image_area == width * height
        bitmap_area == bitmap_size * bitmap_size
        new_widths == IF image_area > bitmap_area THEN RoundScaled(width, height, bitmap_size) ELSE {width}
        new_heights == IF image_area > bitmap_area THEN RoundScaled(height, width, bitmap_size) ELSE {height}
    IN {<<IF nw = 0 THEN 1 ELSE nw, IF nh = 0 THEN 1 ELSE nh>> : nw \in new_widths, nh \in new_heights}

CallCalculateOptimalSize ==
    /\ script = "material_module" /\ pc = "start"
    /\ \E r \in calculate_optimal_size(args.width, args.height, args.bitmap_size) :
          args' = [args EXCEPT !.ret = Some(r)]
    /\ pc' = "returned"
    /\ UNCHANGED <<wallpaper_path, reader, script, argv, settings, options, cmd, launches, proc, exitcode, out, written>>

SizeInit ==
    /\ script = "material_module"
    /\ argv = <<>>
    /\ pc = "start"
    /\ args \in {[call |-> "calculate_optimal_size", width |-> w, height |-> h, bitmap_size |-> b,
                   ret |-> None] : w \in 1..MaxDim, h \in 1..MaxDim, b \in 1..MaxDim}
    /\ settings = None
    /\ options = None
    /\ cmd = <<>>
    /\ launches = 0
    /\ proc = NoProc
    /\ exitcode = NotExited
    /\ out = {}
    /\ written = {}
    /\ reader = None
    /\ wallpaper_path = None

SizeNext == CallCalculateOptimalSize

SizeSpec == SizeInit /\ [][SizeNext]_vars

section_header(s) ==
    CASE s = "hellwall" -> "Hellwal"
      [] s = "pywal" -> "Pywal"
      [] s = "matugen" -> "Matugen"
\* the keys the if/elif chain of load_config assigns
known_keys(s) ==
    CASE s = "hellwall" -> DOMAIN hellwall_defaults
      [] s = "pywal" -> DOMAIN pywal_defaults \cup {"cols16_method"}
      [] s = "matugen" -> DOMAIN matugen_defaults \cup {"verbose"}
\* the dictionary load_config starts from
default_settings(s) ==
    CASE s = "hellwall" -> hellwall_defaults
      [] s = "pywal" -> pywal_defaults
      [] s = "matugen" -> matugen_defaults

\* the config paths tried: none, a path that names nothing, a directory, a file
ConfigPaths == {"", "missing.ini", "confdir", "config.ini"}
\* os.path.exists(path)
path_exists(p) == p \in {"confdir", "config.ini"}
\* open(path, "r") can succeed: not on a directory
can_open(p) == p = "config.ini"
\* a key of the script that the other two scripts do not know
OwnKeyLine(s) ==
    CASE s = "hellwall" -> KV("gray_scale", "0.5")
      [] s = "pywal" -> KV("cols16_method", "lighten")
      [] s = "matugen" -> KV("verbose", "true")
\* the header of the script in the wrong letter case
WrongCaseHeader(s) ==
    CASE s = "hellwall" -> Header("hellwal")
      [] s = "pywal" -> Header("pywal")
      [] s = "matugen" -> Header("matugen")
\* the lines the file can yield
ReaderLines(s) ==
    {<<" ">>,
     <<"#", "mode", "=", "light">>,
     <<" ", "[", section_header(s), "]", " ">>,
     WrongCaseHeader(s),
     Header("Other"),
     <<"[", "mode", "=", "x", "]">>,
     <<" ", "MODE", " ", "=", " ", "light", " ">>,
     <<"mode", "=", "a", "=", "b">>,
     <<"mode", "=">>,
     <<"mode", " ", "light">>,
     KV("colour", "x"),
     OwnKeyLine(s)}

\* a variant of the handler that returns the defaults again
settings_after_error_reset(s, cur) == default_settings(s)
\* the handler "except Exception": the dictionary is returned as it is
settings_after_error(s, cur) == cur

\* settings = {...}; if not config_path or not os.path.exists(config_path): return settings
LoadConfigCall ==
    /\ script \in Generators /\ reader # None /\ pc = "start"
    /\ settings' = default_settings(script)
    /\ pc' = IF reader.path = "" \/ ~path_exists(reader.path) THEN "returned" ELSE "opening"
    /\ UNCHANGED <<wallpaper_path, reader, script, argv, args, options, cmd, launches, proc, exitcode, out, written>>

\* with open(config_path, "r") as f: in_section = False; open() may raise
LoadConfigOpen ==
    /\ script \in Generators /\ reader # None /\ pc = "opening"
    /\ \E opened \in {b \in BOOLEAN : b => can_open(reader.path)} :
          IF opened
          THEN /\ pc' = "reading"
               /\ reader' = [reader EXCEPT !.in_section = FALSE]
               /\ UNCHANGED <<settings, out>>
          ELSE /\ pc' = "returned"
               /\ out' = out \cup {"config_error"}
               /\ settings' = settings_after_error(script, settings)
               /\ UNCHANGED reader
    /\ UNCHANGED <<wallpaper_path, script, argv, args, options, cmd, launches, proc, exitcode, written>>

\* one iteration of "for line in f" on the next line of the file
LoadConfigLine ==
    /\ script \in Generators /\ reader # None /\ pc = "reading"
    /\ Len(reader.lines) < MaxConfigLines
    /\ \E raw \in ReaderLines(script) :
          LET st == load_config_line(section_header(script), known_keys(script),
                                     [in_section |-> reader.in_section, settings |-> settings], raw)
          IN /\ reader' = [reader EXCEPT !.lines = Append(@, raw), !.in_section = st.in_section]
             /\ settings' = st.settings
    /\ UNCHANGED <<wallpaper_path, script, pc, argv, args, options, cmd, launches, proc, exitcode, out, written>>

\* reading the next line raises (an I/O or decoding error): the handler
\* prints the error and the function returns
LoadConfigReadError ==
    /\ script \in Generators /\ reader # None /\ pc = "reading"
    /\ out' = out \cup {"config_error"}
    /\ settings' = settings_after_error(script, settings)
    /\ pc' = "returned"
    /\ UNCHANGED <<wallpaper_path, reader, script, argv, args, options, cmd, launches, proc, exitcode, written>>

\* the file is exhausted: return settings
LoadConfigEOF ==
    /\ script \in Generators /\ reader # None /\ pc = "reading"
    /\ pc' = "returned"
    /\ UNCHANGED <<wallpaper_path, reader, script, argv, args, settings, options, cmd, launches, proc, exitcode, out, written>>

ConfigInit ==
    /\ script \in Generators
    /\ argv = <<>>
    /\ pc = "start"
    /\ args = None
    /\ settings = None
    /\ options = None
    /\ cmd = <<>>
    /\ launches = 0
    /\ proc = NoProc
    /\ exitcode = NotExited
    /\ out = {}
    /\ written = {}
    /\ reader \in {[path |-> p, lines |-> <<>>, in_section |-> FALSE] : p \in ConfigPaths}
    /\ wallpaper_path = None

ConfigNext == LoadConfigCall \/ LoadConfigOpen \/ LoadConfigLine \/ LoadConfigReadError \/ LoadConfigEOF

ConfigSpec == ConfigInit /\ [][ConfigNext]_vars

\* what a line is, by its stripped text
LineClass(raw) ==
    LET line == Strip(raw)
        skipped == line = <<>> \/ Head(line) = "#"
        bracketed == ~skipped /\ Head(line) = "[" /\ line[Len(line)] = "]"
        e == FirstEq(line)
        keyvalue == ~skipped /\ ~bracketed /\ e # 0
    IN [text |-> Join(line), skipped |-> skipped, bracketed |-> bracketed, keyvalue |-> keyvalue,
        key |-> IF keyvalue THEN Lower(Join(Strip(SubSeq(line, 1, e - 1)))) ELSE "",
        value |-> IF keyvalue THEN Join(Strip(SubSeq(line, e + 1, Len(line)))) ELSE ""]
LineTable == [raw \in UNION {ReaderLines(s) : s \in Generators} |-> LineClass(raw)]
IsBracketed(raw) == LineTable[raw].bracketed
IsOwnHeader(s, raw) == LineTable[raw].text = "[" \o section_header(s) \o "]"
IsKeyValue(raw) == LineTable[raw].keyvalue
KeyOf(raw) == LineTable[raw].key
ValueOf(raw) == LineTable[raw].value
\* the in-section flag after the first n lines: the last [..] line among
\* them, if any, is the script's own header
FlagAfter(s, lines, n) ==
    LET B == {j \in 1..n : IsBracketed(lines[j])}
    IN B # {} /\ IsOwnHeader(s, lines[CHOOSE j \in B : \A i \in B : i <= j])
\* the lines that assign the key k
Assigning(s, lines, k) ==
    {j \in DOMAIN lines : IsKeyValue(lines[j]) /\ KeyOf(lines[j]) = k /\ FlagAfter(s, lines, j - 1)}
\* the value of the last of them, else the default; None when there is neither
ExpectedSetting(s, lines, k) ==
    LET A == Assigning(s, lines, k)
    IN IF A # {} THEN Some(ValueOf(lines[CHOOSE j \in A : \A i \in A : i <= j]))
       ELSE IF k \in DOMAIN default_settings(s) THEN Some(default_settings(s)[k])
       ELSE None

\* C11: while load_config reads the file, the in-section flag is true exactly
\* when the last [..] line read is the script's own header (stripped, case
\* kept), and each setting is the stripped value of the last key=value line
\* with that known key read while the flag was true, split at the first "=",
\* else the built-in default; no other key is ever set.
C11_SectionFlagAndLastValue ==
    (script \in Generators /\ reader # None /\ pc \in {"reading", "returned"}) =>
        /\ reader.in_section = FlagAfter(script, reader.lines, Len(reader.lines))
        /\ DOMAIN settings \subseteq known_keys(script)
        /\ \A k \in known_keys(script) :
              ExpectedSetting(script, reader.lines, k) =
                  IF k \in DOMAIN settings THEN Some(settings[k]) ELSE None

\* own header, "mode=a=b", then another section and a mode line that is ignored
C11_Witness ==
    /\ script \in Generators /\ reader # None /\ pc = "reading"
    /\ Len(reader.lines) = 3
    /\ IsOwnHeader(script, reader.lines[1])
    /\ reader.lines[2] = <<"mode", "=", "a", "=", "b">>
    /\ reader.lines[3] = Header("Other")
    /\ ~reader.in_section
    /\ settings["mode"] = "a=b"

\* C19: load_config always returns a dictionary: with an empty path or a path
\* that names nothing it returns the defaults and reports nothing; when
\* open() or a read fails it reports the error and returns the defaults
\* overlaid with what the lines read before the error assigned.
C19_ErrorsKeepAssignedSettings ==
    (script \in Generators /\ reader # None /\ pc = "returned") =>
        /\ exitcode = NotExited
        /\ (reader.path = "" \/ ~path_exists(reader.path)) =>
              settings = default_settings(script) /\ "config_error" \notin out
        /\ ~can_open(reader.path) => settings = default_settings(script)
        /\ (path_exists(reader.path) /\ ~can_open(reader.path)) => "config_error" \in out
        /\ settings = load_config_lines(section_header(script), known_keys(script),
                                        [in_section |-> FALSE, settings |-> default_settings(script)],
                                        reader.lines).settings

\* a read fails after "mode = light" of the own section was read
C19_Witness ==
    /\ script \in Generators /\ reader # None /\ pc = "returned"
    /\ "config_error" \in out
    /\ Len(reader.lines) >= 2
    /\ settings["mode"] = "light"

====
